---------------------------- MODULE Spec2Model ----------------------------
(***************************************************************************)
(* Model of package timestamp (intuitivelabs/timestamp): the TS type, a    *)
(* signed integer count of nanoseconds relative to the Unix epoch, its     *)
(* conversions to and from time.Time, its arithmetic, comparison and       *)
(* truncation methods and its atomic accessors.                            *)
(*                                                                         *)
(* TS is an int64 in the source.  TLC cannot enumerate 2^64 values, so     *)
(* the word is Bits wide here and every wrapping operation is reduced      *)
(* modulo 2^Bits the way the int64 operation is reduced modulo 2^64.       *)
(*                                                                         *)
(* A time.Time is modelled by the instant it denotes: the integer count    *)
(* of nanoseconds since the time package's zero time (January 1, year 1,   *)
(* 00:00:00 UTC).  Location and monotonic reading are dropped: Equal,      *)
(* Before, After, Sub, Add and Truncate of package time depend on the      *)
(* instant only (tZero carries no monotonic reading, so Sub never takes    *)
(* the monotonic path).                                                    *)
(***************************************************************************)
EXTENDS Integers, FiniteSets, Sequences, TLC

\* Width of the TS word (64 in the source).
Bits == 5

\* How far the enumerated time.Time values extend past the TS range and
\* before the zero time.
Margin == 3

\* Number of goroutines contending on the shared location.
NProcs == 3

\* Nanoseconds between the zero time.Time (year 1) and the Unix epoch
\* (62135596800 s in package time; scaled with the word).
unixToInternal == 120

\* time.Second and time.Microsecond in nanoseconds (scaled with the word).
Second == 4

Microsecond == 2

MaxTS == 2^(Bits - 1) - 1

MinTS == -(2^(Bits - 1))

\* The values of the TS (and time.Duration) type.
TSVals == MinTS..MaxTS

\* int64 wrap-around of a mathematical integer.
Wrap(x) == ((x - MinTS) % 2^Bits) + MinTS

\* Go's integer division (truncated toward zero), for a positive divisor.
Quo(a, b) == IF a >= 0 THEN a \div b ELSE -((-a) \div b)

\* Go's remainder: it has the sign of the dividend.
Rem(a, b) == a - Quo(a, b) * b

\* Arithmetic right shift by the word width minus one: the sign as 0 / -1.
SignShift(x) == IF x < 0 THEN -1 ELSE 0

----------------------------------------------------------------------------
(* package time, as far as the source uses it *)

\* time.Time{}: the zero time.
ZeroTime == 0

\* time.Time.IsZero
TimeIsZero(u) == u = 0

\* time.Unix(sec, nsec): nsec outside [0, Second) is carried into sec.
TimeUnix(sec, nsec) ==
    LET n  == IF nsec < 0 \/ nsec >= Second THEN Quo(nsec, Second) ELSE 0
        s1 == sec + n
        n1 == nsec - n * Second
        s2 == IF n1 < 0 THEN s1 - 1 ELSE s1
        n2 == IF n1 < 0 THEN n1 + Second ELSE n1
    IN  unixToInternal + s2 * Second + n2

\* time.Time.Sub: the difference, saturated to the Duration range.
TimeSub(u, v) ==
    IF u - v < MinTS THEN MinTS
    ELSE IF u - v > MaxTS THEN MaxTS
    ELSE u - v

\* time.Time.Add
TimeAdd(u, dd) == u + dd

\* time.Time.Truncate: down to a multiple of dd since the zero time.
TimeTruncate(u, dd) == IF dd <= 0 THEN u ELSE u - (u % dd)

\* The time.Time values the conversions are tried on: from before the zero
\* time to past the upper end of the TS range.
TimeVals == (-Margin)..(unixToInternal + MaxTS + Margin)

----------------------------------------------------------------------------
(* package timestamp *)

\* var tZero time.Time = time.Unix(0, 0).UTC()
tZero == TimeUnix(0, 0)

IsZero(a) == a = 0

Duration(a) == a

\* Timestamp without the case for the zero time.
TimestampNoZeroCase(u) == TimeSub(u, tZero)

Timestamp(u) == IF TimeIsZero(u) THEN 0 ELSE TimeSub(u, tZero)

\* OutOfRange with strict comparisons against the ends of the range.
OutOfRangeStrict(u) ==
    LET dd == TimeSub(u, tZero)
    IN  ~TimeIsZero(u) /\ (dd < MinTS \/ dd > MaxTS)

OutOfRange(u) ==
    LET dd == TimeSub(u, tZero)
    IN  ~TimeIsZero(u) /\ (dd <= MinTS \/ dd >= MaxTS)

Zero == Timestamp(tZero)

Unix(sec, nsec) == Timestamp(TimeUnix(sec, nsec))

\* Time without the case for numeric zero.
TimeNoZeroCase(a) == TimeAdd(tZero, Duration(a))

Time(a) == IF IsZero(a) THEN ZeroTime ELSE TimeAdd(tZero, Duration(a))

Add(a, dd) == Wrap(a + dd)

AddTS(a, b) == Wrap(a + b)

\* Sub with its operands exchanged.
SubReversed(a, b) == Duration(Wrap(b - a))

Sub(a, b) == Duration(Wrap(a - b))

SubTime(a, u) == TimeSub(Time(a), u)

After(a, b) == a > b

AfterTime(a, u) == Time(a) > u

\* Before with a non-strict comparison.
BeforeOrEqual(a, b) == a <= b

Before(a, b) == a < b

BeforeTime(a, u) == Time(a) < u

Equal(a, b) == a = b

EqualTime(a, u) == Time(a) = u

\* Truncate without the correction for a negative remainder: it rounds
\* toward zero.
TruncateTowardZero(a, dd) ==
    IF dd <= 0 THEN a
    ELSE Wrap(Quo(a, dd) * dd)

Truncate(a, dd) ==
    IF dd <= 0 THEN a
    ELSE Wrap(Wrap(Quo(a, dd) + SignShift(Rem(a, dd))) * dd)

TruncateTime(a, dd) == TimeTruncate(Time(a), dd)

\* The absent (nil) *time.Location.
NilLocation == "nil"

\* time.Date: it panics ("time: missing Location in call to Date") when
\* the location is nil, before any calendar computation.  The calendar
\* value of a call with a location is not modelled: the source makes no
\* such call.
Date(year, month, day, loc) == [panic |-> loc = NilLocation]

\* AddDate passes a nil location to time.Date.  A panic in time.Date
\* unwinds AddDate: no value is returned.
AddDate(a, years, months, days) ==
    LET date == Date(years, months, days, NilLocation)
    IN  IF date.panic
        THEN [panic |-> TRUE]
        ELSE [panic |-> FALSE, ts |-> AddTS(a, Timestamp(date.time))]

----------------------------------------------------------------------------
(* sync/atomic on the int64 behind a *TS: each call is one indivisible     *)
(* step on the current content cur of the location; val is the content     *)
(* it leaves.                                                              *)

AtomicStore(cur, v) == [val |-> v]

AtomicLoad(cur) == [val |-> cur, ret |-> cur]

\* A swap that returns the value it stored.
SwapReturnsNew(cur, v) == [val |-> v, ret |-> v]

AtomicSwap(cur, v) == [val |-> v, ret |-> cur]

\* A compare-and-swap that stores whatever it finds.
CompareAndSwapAlwaysStores(cur, oldv, newv) ==
    [val |-> newv, ret |-> cur = oldv]

AtomicCompareAndSwap(cur, oldv, newv) ==
    [val |-> IF cur = oldv THEN newv ELSE cur, ret |-> cur = oldv]

----------------------------------------------------------------------------
(* State *)

VARIABLES
    op,     \* the last method called on values ("none" at the start)
    args,   \* its arguments
    ret,    \* what it returned
    loc,    \* the shared TS location
    pc,     \* where each goroutine is; goroutine 0 is the spawning one
    oldv,   \* the value goroutine 0 loaded before spawning the others
    newv,   \* per goroutine: the value it writes
    res,    \* per goroutine: what its atomic call returned
    seen,   \* per goroutine: the content its atomic call found (history)
    final   \* what the final AtomicLoad returned, once made

vars == <<op, args, ret, loc, pc, oldv, newv, res, seen, final>>

valueVars == <<op, args, ret>>

sharedVars == <<loc, pc, oldv, newv, res, seen, final>>

Procs == 1..NProcs

None == "none"

----------------------------------------------------------------------------
(* Calls on values: every method is a pure function of its arguments.  A   *)
(* caller makes one call at a time: the call's arguments and results stay  *)
(* in op, args and ret until Return drops them.                            *)

\* Arguments of Unix(sec, nsec).
SecVals == (-Margin)..Margin

NsecVals == (-(Second + 1))..(2 * Second)

\* Arguments of AddDate.
YearVals == {-1, 0, 1, 1970}

MonthVals == {0, 1, 12, 13}

DayVals == {0, 1, 31}

CallTimestamp ==
    \E u \in TimeVals :
        /\ op = "none"
        /\ op' = "Timestamp"
        /\ args' = [t |-> u]
        /\ ret' = [ts |-> Timestamp(u), outOfRange |-> OutOfRange(u),
                   time |-> Time(Timestamp(u))]
        /\ UNCHANGED sharedVars

CallUnix ==
    \E sec \in SecVals, nsec \in NsecVals :
        /\ op = "none"
        /\ op' = "Unix"
        /\ args' = [sec |-> sec, nsec |-> nsec, t |-> TimeUnix(sec, nsec)]
        /\ ret' = [ts |-> Unix(sec, nsec), zero |-> Zero,
                   isZero |-> IsZero(Unix(sec, nsec)),
                   time |-> Time(Unix(sec, nsec))]
        /\ UNCHANGED sharedVars

CallTime ==
    \E a \in TSVals :
        /\ op = "none"
        /\ op' = "Time"
        /\ args' = [ts |-> a]
        /\ ret' = [time |-> Time(a), isZero |-> IsZero(a),
                   ts |-> Timestamp(Time(a))]
        /\ UNCHANGED sharedVars

CallCompare ==
    \E a \in TSVals, b \in TSVals :
        /\ op = "none"
        /\ op' = "Compare"
        /\ args' = [ts |-> a, ts2 |-> b]
        /\ ret' = [after |-> After(a, b), before |-> Before(a, b),
                   equal |-> Equal(a, b),
                   afterTime |-> AfterTime(a, Time(b)),
                   beforeTime |-> BeforeTime(a, Time(b)),
                   equalTime |-> EqualTime(a, Time(b))]
        /\ UNCHANGED sharedVars

CallAdd ==
    \E a \in TSVals, dd \in TSVals :
        /\ op = "none"
        /\ op' = "Add"
        /\ args' = [ts |-> a, d |-> dd]
        /\ ret' = [ts |-> Add(a, dd),
                   equalTime |-> EqualTime(Add(a, dd), TimeAdd(Time(a), dd)),
                   subTime |-> SubTime(Add(a, dd), Time(a)),
                   sub |-> Sub(Add(a, dd), a)]
        /\ UNCHANGED sharedVars

CallTruncate ==
    \E a \in TSVals, dd \in TSVals :
        /\ op = "none"
        /\ op' = "Truncate"
        /\ args' = [ts |-> a, d |-> dd]
        /\ ret' = [ts |-> Truncate(a, dd), time |-> Time(Truncate(a, dd)),
                   truncateTime |-> TruncateTime(a, dd)]
        /\ UNCHANGED sharedVars

CallAddDate ==
    \E a \in TSVals, y \in YearVals, m \in MonthVals, dy \in DayVals :
        /\ op = "none"
        /\ op' = "AddDate"
        /\ args' = [ts |-> a, years |-> y, months |-> m, days |-> dy]
        /\ ret' = AddDate(a, y, m, dy)
        /\ UNCHANGED sharedVars

\* The caller is done with the last call's results.
Return ==
    /\ op # "none"
    /\ op' = "none"
    /\ args' = [none |-> TRUE]
    /\ ret' = [none |-> TRUE]
    /\ UNCHANGED sharedVars

\* A shared location nobody uses: the zero value of a TS variable.
IdleShared ==
    /\ loc = 0
    /\ pc = [i \in Procs \cup {0} |-> "idle"]
    /\ oldv = None
    /\ newv = [i \in Procs |-> 0]
    /\ res = [i \in Procs |-> None]
    /\ seen = [i \in Procs |-> None]
    /\ final = None

NoCall ==
    /\ op = "none"
    /\ args = [none |-> TRUE]
    /\ ret = [none |-> TRUE]

Init == NoCall /\ IdleShared

Next ==
    \/ CallTimestamp
    \/ CallUnix
    \/ CallTime
    \/ CallCompare
    \/ CallAdd
    \/ CallTruncate
    \/ CallAddDate
    \/ Return

Spec == Init /\ [][Next]_vars

----------------------------------------------------------------------------
(* Goroutines on one shared TS location.  Goroutine 0 stores a start      *)
(* value, loads it back, hands the loaded value and one value to write    *)
(* to each of the others, waits for them and loads the location again.    *)
(* The others make one atomic call each, in any order.                     *)

\* The start values tried.
StartVals == {MinTS, 0, MaxTS}

\* The values handed out for writing: the loaded value and its successors.
NewVals(v) == {Wrap(v + k) : k \in 0..NProcs}

InitShared ==
    /\ NoCall
    /\ loc = 0
    /\ pc = [i \in Procs \cup {0} |-> IF i = 0 THEN "store" ELSE "idle"]
    /\ oldv = None
    /\ newv = [i \in Procs |-> 0]
    /\ res = [i \in Procs |-> None]
    /\ seen = [i \in Procs |-> None]
    /\ final = None

MainStore ==
    /\ pc[0] = "store"
    /\ \E v \in StartVals : loc' = AtomicStore(loc, v).val
    /\ pc' = [pc EXCEPT ![0] = "spawn"]
    /\ UNCHANGED <<valueVars, oldv, newv, res, seen, final>>

MainSpawn ==
    /\ pc[0] = "spawn"
    /\ loc' = AtomicLoad(loc).val
    /\ oldv' = AtomicLoad(loc).ret
    /\ newv' \in [Procs -> NewVals(AtomicLoad(loc).ret)]
    /\ pc' = [i \in Procs \cup {0} |-> IF i = 0 THEN "wait" ELSE "ready"]
    /\ UNCHANGED <<valueVars, res, seen, final>>

CompareAndSwap(i) ==
    /\ pc[i] = "ready"
    /\ LET r == AtomicCompareAndSwap(loc, oldv, newv[i])
       IN  /\ loc' = r.val
           /\ res' = [res EXCEPT ![i] = r.ret]
    /\ seen' = [seen EXCEPT ![i] = loc]
    /\ pc' = [pc EXCEPT ![i] = "done"]
    /\ UNCHANGED <<valueVars, oldv, newv, final>>

Swap(i) ==
    /\ pc[i] = "ready"
    /\ LET r == AtomicSwap(loc, newv[i])
       IN  /\ loc' = r.val
           /\ res' = [res EXCEPT ![i] = r.ret]
    /\ seen' = [seen EXCEPT ![i] = loc]
    /\ pc' = [pc EXCEPT ![i] = "done"]
    /\ UNCHANGED <<valueVars, oldv, newv, final>>

FinalLoad ==
    /\ pc[0] = "wait"
    /\ \A i \in Procs : pc[i] = "done"
    /\ loc' = AtomicLoad(loc).val
    /\ final' = AtomicLoad(loc).ret
    /\ pc' = [pc EXCEPT ![0] = "done"]
    /\ UNCHANGED <<valueVars, oldv, newv, res, seen>>

NextCAS ==
    \/ MainStore
    \/ MainSpawn
    \/ \E i \in Procs : CompareAndSwap(i)
    \/ FinalLoad

SpecCAS == InitShared /\ [][NextCAS]_vars

NextSwap ==
    \/ MainStore
    \/ MainSpawn
    \/ \E i \in Procs : Swap(i)
    \/ FinalLoad

SpecSwap == InitShared /\ [][NextSwap]_vars

\* The goroutines that have made their call.
DoneProcs == {i \in Procs : pc[i] = "done"}

\* The values handed out are pairwise distinct and none is the loaded one.
DistinctNew ==
    /\ \A i \in Procs : newv[i] # oldv
    /\ \A i, j \in Procs : i # j => newv[i] # newv[j]

\* The goroutines were spawned (goroutine 0 is past its spawn step).
Spawned == pc[0] \in {"wait", "done"}

\* Goroutine 0 has made its final load.
Loaded == pc[0] = "done"

\* C2: of the concurrent CompareAndSwap calls with the stored value as the
\* expected one and pairwise distinct new values other than it, exactly one
\* returns true and the others false; a call returns true exactly when it
\* found the expected value stored; the final AtomicLoad returns the new
\* value of the call that returned true.
C2_CompareAndSwapOnce ==
    Spawned =>
        /\ \A i \in DoneProcs : res[i] = (seen[i] = oldv)
        /\ DistinctNew =>
              /\ DoneProcs # {} =>
                    Cardinality({i \in DoneProcs : res[i]}) = 1
              /\ \A i \in DoneProcs : res[i] => loc = newv[i]
              /\ Loaded =>
                    /\ DoneProcs = Procs
                    /\ \E i \in Procs : res[i] /\ final = newv[i]
                    /\ \A i \in Procs : res[i] <=> final = newv[i]

\* Every call has been made, the last goroutine's one returned true and
\* the first goroutine's one false, and the final load was made.
C2_Witness ==
    /\ Spawned
    /\ DistinctNew
    /\ Loaded
    /\ res[1] = FALSE
    /\ res[NProcs] = TRUE
    /\ final = newv[NProcs]

\* C3: of the concurrent AtomicSwap calls writing pairwise distinct values
\* other than the initial one, each returns the value stored just before
\* it; the returned values together with the stored value are the initial
\* value and the written values, each once.
C3_SwapLosesNothing ==
    Spawned =>
        /\ \A i \in DoneProcs : res[i] = seen[i]
        /\ DistinctNew =>
              LET returned == {res[i] : i \in DoneProcs}
                  written  == {newv[i] : i \in DoneProcs}
              IN  /\ returned \cup {loc} = written \cup {oldv}
                  /\ Cardinality(returned) = Cardinality(DoneProcs)
                  /\ loc \notin returned
                  /\ Loaded => (final = loc /\ DoneProcs = Procs)

\* Every swap has been made, the first goroutine's one not first, and the
\* final load was made.
C3_Witness ==
    /\ Spawned
    /\ DistinctNew
    /\ Loaded
    /\ res[1] # oldv
    /\ final # newv[NProcs]

----------------------------------------------------------------------------
(* Properties of the calls on values, checked under Spec.                  *)

\* Whether the mathematical sum a + dd fits the TS word.
NoOverflow(a, dd) == a + dd >= MinTS /\ a + dd <= MaxTS

\* C1 as stated: for every time t that is the zero time or for which
\* OutOfRange(t) is false, Timestamp(t).Time() is the instant t; the Unix
\* epoch instant is among these t.
C1_RoundTripAll ==
    (op = "Timestamp" /\ (TimeIsZero(args.t) \/ ~ret.outOfRange))
        => ret.time = args.t

\* C1 as amended: for every time t other than the Unix epoch instant that
\* is the zero time or for which OutOfRange(t) is false,
\* Timestamp(t).Time() is the instant t; for the Unix epoch instant
\* Timestamp(t) is 0 and Timestamp(t).Time() is the zero time.
C1_RoundTrip ==
    op = "Timestamp" =>
        /\ (args.t # tZero /\ (TimeIsZero(args.t) \/ ~ret.outOfRange))
              => ret.time = args.t
        /\ args.t = tZero
              => (~ret.outOfRange /\ ret.ts = 0 /\ ret.time = ZeroTime)

\* An in-range time before the epoch has been converted and converted back.
C1_Witness ==
    /\ op = "Timestamp"
    /\ ~TimeIsZero(args.t)
    /\ ~ret.outOfRange
    /\ ret.ts < 0
    /\ ret.time = args.t

\* C4: for every a and every positive d, a.Truncate(d).Time() is
\* a.Time().Truncate(d), the truncation package time computes from its
\* zero time.
C4_TruncateAgreesWithTime ==
    (op = "Truncate" /\ args.d > 0) => ret.time = ret.truncateTime

\* C5 as stated: for every a and every positive d, r = a.Truncate(d) is at
\* most a, is a multiple of d and is less than d below a; for d <= 0,
\* a.Truncate(d) is a.
C5_FloorLawAll ==
    op = "Truncate" =>
        /\ args.d > 0 =>
              /\ ret.ts <= args.ts
              /\ ret.ts % args.d = 0
              /\ args.ts - ret.ts < args.d
        /\ args.d <= 0 => ret.ts = args.ts

\* C5 as amended: the floor law holds for every a and every positive d
\* whose floor multiple, the largest multiple of d at or below a, is not
\* below MinTS; when it is below MinTS the result is that multiple wrapped
\* to the word, which is above a; for d <= 0, a.Truncate(d) is a.
C5_FloorLaw ==
    op = "Truncate" =>
        LET floorMultiple == (args.ts \div args.d) * args.d
        IN  /\ (args.d > 0 /\ floorMultiple >= MinTS) =>
                  /\ ret.ts = floorMultiple
                  /\ ret.ts <= args.ts
                  /\ ret.ts % args.d = 0
                  /\ args.ts - ret.ts < args.d
            /\ (args.d > 0 /\ floorMultiple < MinTS) =>
                  /\ ret.ts = floorMultiple + 2^Bits
                  /\ ret.ts > args.ts
            /\ args.d <= 0 => ret.ts = args.ts

\* A negative value that is no multiple of d has been rounded down, away
\* from zero.
C5_Witness ==
    /\ op = "Truncate"
    /\ args.ts < 0
    /\ args.d > 1
    /\ args.ts % args.d # 0
    /\ ret.ts < args.ts
    /\ ret.ts >= MinTS

\* C6 as stated: for all a and b exactly one of After, Before and Equal
\* holds, and it is the relation between a.Time() and b.Time().
C6_OrderingAll ==
    op = "Compare" =>
        /\ Cardinality({r \in {"after", "before", "equal"} : ret[r]}) = 1
        /\ ret.after = ret.afterTime
        /\ ret.before = ret.beforeTime
        /\ ret.equal = ret.equalTime

\* Whether one of a, b is numeric zero and the other is negative.
ZeroAgainstNegative(a, b) == (a = 0 /\ b < 0) \/ (b = 0 /\ a < 0)

\* C6 as amended: for all a and b exactly one of After, Before and Equal
\* holds; it is the relation between a.Time() and b.Time() unless one of
\* a, b is numeric zero and the other is negative, and then the relation
\* between the times is the opposite one.
C6_Ordering ==
    op = "Compare" =>
        /\ Cardinality({r \in {"after", "before", "equal"} : ret[r]}) = 1
        /\ ~ZeroAgainstNegative(args.ts, args.ts2) =>
              /\ ret.after = ret.afterTime
              /\ ret.before = ret.beforeTime
              /\ ret.equal = ret.equalTime
        /\ ZeroAgainstNegative(args.ts, args.ts2) =>
              /\ ret.after = ret.beforeTime
              /\ ret.before = ret.afterTime
              /\ ~ret.equal /\ ~ret.equalTime

\* Numeric zero has been compared with a positive value, and the times
\* compare the same way.
C6_Witness ==
    /\ op = "Compare"
    /\ args.ts = 0
    /\ args.ts2 > 0
    /\ ret.before
    /\ ret.beforeTime

C8_RangePredicate ==
    op = "Timestamp" =>
        /\ ret.outOfRange =
              (/\ args.t # ZeroTime
               /\ (args.t - tZero <= MinTS \/ args.t - tZero >= MaxTS))
        /\ args.t = tZero + MaxTS => ret.outOfRange
        /\ args.t = tZero + MaxTS - 1 => ~ret.outOfRange
        /\ args.t = tZero + MinTS => ret.outOfRange
        /\ args.t = tZero + MinTS + 1 => ~ret.outOfRange
        /\ args.t = ZeroTime => ~ret.outOfRange
        /\ args.t = ZeroTime + Microsecond => ret.outOfRange

\* The time at the upper end of the range has been tested.
C8_Witness ==
    /\ op = "Timestamp"
    /\ args.t = tZero + MaxTS
    /\ ret.outOfRange

\* C9: Timestamp of the zero time is 0; TS(0).Time() is the zero time and
\* not the epoch; IsZero is true exactly of numeric 0; Unix(0, 0), Zero()
\* and 0 are one value, which IsZero and whose Time() is the zero time.
C9_ZeroConvention ==
    /\ (op = "Timestamp" /\ TimeIsZero(args.t)) => ret.ts = 0
    /\ op = "Time" =>
          /\ ret.isZero = (args.ts = 0)
          /\ args.ts = 0 => (ret.time = ZeroTime /\ ret.time # tZero)
    /\ (op = "Unix" /\ args.sec = 0 /\ args.nsec = 0) =>
          /\ args.t = tZero
          /\ ret.ts = 0
          /\ ret.zero = 0
          /\ ret.isZero
          /\ ret.time = ZeroTime
          /\ ret.time # args.t

\* Unix(0, 0) has been called.
C9_Witness ==
    /\ op = "Unix"
    /\ args.sec = 0
    /\ args.nsec = 0
    /\ ret.isZero

\* C10: for every ts and every (years, months, days), AddDate returns
\* normally, with ts + Timestamp(date) wrapped to the word.
C10_AddDateTotal ==
    op = "AddDate" => (~ret.panic /\ ret.ts \in TSVals)

=============================================================================
